---- MODULE Spec2Model ----
(***************************************************************************)
(* file_usage: ingestion of "size owner path" lines into a path trie with  *)
(* per-owner totals, and the threshold-filtered, chain-collapsing render   *)
(* of that trie (src/file_usage/file_usage.py).                            *)
(*                                                                         *)
(* Python strings are modelled as sequences of one-character strings, so   *)
(* that splitting, stripping, prefix tests and concatenation are computed  *)
(* character by character as the code computes them.  Python dicts are     *)
(* modelled as functions whose DOMAIN is the key set; the order in which   *)
(* a dict is iterated is a separate input (see DictOrders).  Byte counts   *)
(* are exact integers: every value the model reaches is below 2^31, where  *)
(* Python's float arithmetic on them is exact as well.                     *)
(***************************************************************************)
EXTENDS Integers, Sequences, FiniteSets, Bags, TLC

VARIABLES args, pc, lines_read, fields, user_usage, file_path_tree,
          num_skipped_lines, stdout, stderr, accepted

vars == <<args, pc, lines_read, fields, user_usage, file_path_tree,
          num_skipped_lines, stdout, stderr, accepted>>

(***************************************************************************)
(* Bounds and program constants                                            *)
(***************************************************************************)

\* Number of input lines read from stdin before end of input.
MaxLines == 3

DEFAULT_INDENT == 8
DEFAULT_PRECISION == 1

\* A dict with no keys.
EmptyDict == <<>>

\* args.path / args.user when the option is not given (None, falsy).
None == <<>>

(***************************************************************************)
(* Characters                                                              *)
(***************************************************************************)

Digits == <<"0", "1", "2", "3", "4", "5", "6", "7", "8", "9">>

LowerCase == <<"a", "b", "c", "d", "e", "f", "g", "h", "i", "j", "k", "l", "m",
               "n", "o", "p", "q", "r", "s", "t", "u", "v", "w", "x", "y", "z">>

UpperCase == <<"A", "B", "C", "D", "E", "F", "G", "H", "I", "J", "K", "L", "M",
               "N", "O", "P", "Q", "R", "S", "T", "U", "V", "W", "X", "Y", "Z">>

Whitespace == {" ", "\t", "\n", "\r"}

Range(s) == {s[i] : i \in DOMAIN s}

\* str.upper() of one character.
upper(c) ==
    IF c \in Range(LowerCase)
    THEN UpperCase[CHOOSE i \in DOMAIN LowerCase : LowerCase[i] = c]
    ELSE c

\* str.strip(): leading and trailing whitespace removed.
RECURSIVE lstrip(_)
lstrip(s) ==
    IF s # <<>> /\ Head(s) \in Whitespace THEN lstrip(Tail(s)) ELSE s

RECURSIVE rstrip(_, _)
rstrip(s, chars) ==
    IF s # <<>> /\ s[Len(s)] \in chars
    THEN rstrip(SubSeq(s, 1, Len(s) - 1), chars)
    ELSE s

strip(s) == rstrip(lstrip(s), Whitespace)

\* str.split(): the maximal runs of non-whitespace characters of s, word
\* being the run under way and out the fields found so far.
RECURSIVE split_from(_, _, _)
split_from(s, word, out) ==
    IF s = <<>> THEN (IF word = <<>> THEN out ELSE Append(out, word))
    ELSE IF Head(s) \in Whitespace
         THEN split_from(Tail(s), <<>>,
                         IF word = <<>> THEN out ELSE Append(out, word))
         ELSE split_from(Tail(s), Append(word, Head(s)), out)

split(s) == split_from(s, <<>>, <<>>)

\* str.startswith(prefix)
startswith(s, prefix) ==
    /\ Len(prefix) <= Len(s)
    /\ SubSeq(s, 1, Len(prefix)) = prefix

(***************************************************************************)
(* Path splitting                                                          *)
(***************************************************************************)

\* str.rfind('/') + 1, counted in characters from the left.
rfind_sep(p) ==
    LET hits == {i \in DOMAIN p : p[i] = "/"}
    IN  IF hits = {} THEN 0 ELSE CHOOSE i \in hits : \A j \in hits : j <= i

\* os.path.split (posixpath): <<head, tail>>, the head without its trailing
\* slashes unless it is made of slashes only.
os_path_split(p) ==
    LET i    == rfind_sep(p)
        head == SubSeq(p, 1, i)
        tail == SubSeq(p, i + 1, Len(p))
    IN  IF head # <<>> /\ (\E k \in DOMAIN head : head[k] # "/")
        THEN <<rstrip(head, {"/"}), tail>>
        ELSE <<head, tail>>

\* The loop of splitall, with the accumulator allparts.
RECURSIVE splitall_loop(_, _)
splitall_loop(path, allparts) ==
    LET parts == os_path_split(path)
    IN  IF parts[1] = path THEN <<parts[1]>> \o allparts
        ELSE IF parts[2] = path THEN <<parts[2]>> \o allparts
        ELSE splitall_loop(parts[1], <<parts[2]>> \o allparts)

splitall(path) == splitall_loop(path, <<>>)

(***************************************************************************)
(* Sizes                                                                   *)
(***************************************************************************)

UnitKeys == {"B", "K", "M", "G", "T"}

UNITS_IN_BYTES(u) ==
    CASE u = "B" -> 1
      [] u = "K" -> 1024
      [] u = "M" -> 1024 * 1024
      [] u = "G" -> 1024 * 1024 * 1024
      [] u = "T" -> 1024 * 1024 * 1024 * 1024

\* float(): the model's tokens are written with decimal digits only, and on
\* those float() succeeds exactly when the text is a non-empty digit string.
float_ok(number) ==
    /\ number # <<>>
    /\ \A i \in DOMAIN number : number[i] \in Range(Digits)

digit_value(c) == (CHOOSE i \in DOMAIN Digits : Digits[i] = c) - 1

RECURSIVE float_value(_)
float_value(number) ==
    IF number = <<>> THEN 0
    ELSE 10 * float_value(SubSeq(number, 1, Len(number) - 1))
         + digit_value(number[Len(number)])

\* Variant of size_in_bytes that swallows the failure of float() and goes
\* on with 0 bytes instead of reaching exit().
size_in_bytes_swallowing(size_str) ==
    IF Len(size_str) >= 1
    THEN LET last   == size_str[Len(size_str)]
             nounit == upper(last) \notin {"K", "M", "G", "T"}
             units  == IF nounit THEN "B" ELSE last
             number == IF nounit THEN size_str
                       ELSE SubSeq(size_str, 1, Len(size_str) - 1)
         IN  IF float_ok(number)
             THEN IF units \in UnitKeys
                  THEN [status |-> "ok",
                        bytes |-> float_value(number) * UNITS_IN_BYTES(units)]
                  ELSE [status |-> "KeyError", bytes |-> 0]
             ELSE [status |-> "ok", bytes |-> 0]
    ELSE [status |-> "exit", bytes |-> 0]

\* size_in_bytes: [status |-> "ok", bytes |-> n] when a value is returned,
\* "exit" when exit("Bad file size ...") is reached, "KeyError" when the
\* lookup UNITS_IN_BYTES[units] raises.
size_in_bytes(size_str) ==
    IF Len(size_str) >= 1
    THEN LET last   == size_str[Len(size_str)]
             nounit == upper(last) \notin {"K", "M", "G", "T"}
             units  == IF nounit THEN "B" ELSE last
             number == IF nounit THEN size_str
                       ELSE SubSeq(size_str, 1, Len(size_str) - 1)
         IN  IF float_ok(number)
             THEN IF units \in UnitKeys
                  THEN [status |-> "ok",
                        bytes |-> float_value(number) * UNITS_IN_BYTES(units)]
                  ELSE [status |-> "KeyError", bytes |-> 0]
             ELSE [status |-> "exit", bytes |-> 0]
    ELSE [status |-> "exit", bytes |-> 0]

(***************************************************************************)
(* Exact comparison of two ratios a/b and c/d (a, c >= 0; b, d > 0) by     *)
(* their continued fractions: -1, 0 or 1.  It stands for the comparisons   *)
(* the code makes on float quotients, without forming products beyond the  *)
(* 32-bit integers of TLC.                                                 *)
(***************************************************************************)
RECURSIVE compare_ratio(_, _, _, _)
compare_ratio(a, b, c, d) ==
    LET qa == a \div b
        qc == c \div d
        ra == a % b
        rc == c % d
    IN  IF qa < qc THEN -1
        ELSE IF qa > qc THEN 1
        ELSE IF ra = 0 /\ rc = 0 THEN 0
        ELSE IF ra = 0 THEN -1
        ELSE IF rc = 0 THEN 1
        ELSE compare_ratio(d, rc, b, ra)

RECURSIVE power_of_ten(_)
power_of_ten(n) == IF n = 0 THEN 1 ELSE 10 * power_of_ten(n - 1)

\* render_bytes_in_gb: '{:.<precision>f}'.format(bytes / 2^30).  The result is
\* the printed decimal without its point: the number of 10^-precision GB
\* nearest to bytes / 2^30, a tie going to the even one as format() does.
render_bytes_in_gb(bytes, precision) ==
    LET scale == power_of_ten(precision)
        giga  == UNITS_IN_BYTES("G")
        top   == ((bytes \div giga) + 1) * scale
        floor == CHOOSE n \in 0..top :
                     /\ compare_ratio(n, scale, bytes, giga) <= 0
                     /\ compare_ratio(n + 1, scale, bytes, giga) > 0
        half  == compare_ratio(bytes, giga, 2 * floor + 1, 2 * scale)
    IN  IF half < 0 THEN floor
        ELSE IF half > 0 THEN floor + 1
        ELSE IF floor % 2 = 0 THEN floor ELSE floor + 1

(***************************************************************************)
(* User and Node                                                           *)
(***************************************************************************)

\* User.__init__
User(name, file_size, count) ==
    [name |-> name, file_size |-> file_size, count |-> count]

\* Node.__init__
Node == [children |-> EmptyDict, users |-> EmptyDict]

\* sum([user_stats.size() for (user_name, user_stats) in users.items()])
RECURSIVE sum_sizes(_)
sum_sizes(users) ==
    IF DOMAIN users = {} THEN 0
    ELSE LET k == CHOOSE k \in DOMAIN users : TRUE
         IN  users[k].file_size
             + sum_sizes([j \in DOMAIN users \ {k} |-> users[j]])

\* sum([user_stats.count for user, user_stats in user_usage.items()])
RECURSIVE sum_counts(_)
sum_counts(users) ==
    IF DOMAIN users = {} THEN 0
    ELSE LET k == CHOOSE k \in DOMAIN users : TRUE
         IN  users[k].count
             + sum_counts([j \in DOMAIN users \ {k} |-> users[j]])

\* Node.size
node_size(node) == sum_sizes(node.users)

\* val.size() for the two classes that have it: User.size and Node.size.
size_of(val) ==
    IF "users" \in DOMAIN val THEN node_size(val) ELSE val.file_size

(***************************************************************************)
(* FilePathTree.insert                                                     *)
(***************************************************************************)

\* Variant of add_to_users that assigns the size of the record to an
\* existing user instead of adding it.
add_to_users_assigning(this_users, user_name, size_bytes) ==
    IF user_name \in DOMAIN this_users
    THEN [this_users EXCEPT ![user_name] =
              [@ EXCEPT !.file_size = size_bytes, !.count = @ + 1]]
    ELSE (user_name :> User(user_name, size_bytes, 1)) @@ this_users

\* The users of a node already in the tree, after one more record.
add_to_users(this_users, user_name, size_bytes) ==
    IF user_name \in DOMAIN this_users
    THEN [this_users EXCEPT ![user_name] =
              [@ EXCEPT !.file_size = @ + size_bytes, !.count = @ + 1]]
    ELSE (user_name :> User(user_name, size_bytes, 1)) @@ this_users

\* The loop of insert over path_list; tree is the dict the loop stands in.
RECURSIVE insert_loop(_, _, _, _)
insert_loop(tree, path_list, size_bytes, user_name) ==
    IF path_list = <<>> THEN tree
    ELSE LET item == Head(path_list)
             rest == Tail(path_list)
         IN  IF Len(strip(item)) > 0
             THEN LET this_node ==
                          IF item \notin DOMAIN tree
                          THEN [Node EXCEPT !.users =
                                   (user_name :> User(user_name, size_bytes, 1))]
                          ELSE [tree[item] EXCEPT !.users =
                                   add_to_users(@, user_name, size_bytes)]
                  IN  (item :> [this_node EXCEPT !.children =
                                   insert_loop(@, rest, size_bytes, user_name)])
                      @@ tree
             ELSE insert_loop(tree, rest, size_bytes, user_name)

insert(tree, path_str, size_bytes, user_name) ==
    insert_loop(tree, splitall(path_str), size_bytes, user_name)

(***************************************************************************)
(* Dict iteration and iter_by_size                                         *)
(***************************************************************************)

\* The names a record can put in a dict: path components and user names.
amy == <<"a", "m", "y">>
bob == <<"b", "o", "b">>

ComponentNames == << <<"/">>, <<"a">>, <<"b">>, <<"c">> >>
UserNames == <<amy, bob>>

\* The names in ascending order.
NameOrder == << <<"/">>, <<"a">>, amy, <<"b">>, bob, <<"c">> >>

Orderings(s) ==
    { p \in [DOMAIN s -> Range(s)] : \A i, j \in DOMAIN p : p[i] = p[j] => i = j }

\* dict.items() of the interpreter the program is written for (Python 2:
\* node.children.items()[0]) lists the keys in hash-slot order, an order the
\* language leaves to the build.  The order is an input of the run: a
\* sequence of all names, in which the keys of every dict are listed.  A
\* dict of the program holds components only or user names only, so the
\* orders below give each dict every order it can have.
DictOrders ==
    { c \o u : c \in Orderings(ComponentNames), u \in Orderings(UserNames) }

\* dict.items(): the keys of dict, in iteration order.
items(dict, order) == SelectSeq(order, LAMBDA k : k \in DOMAIN dict)

\* Insertion of triple x into the descending sequence t, before every triple
\* that is not strictly larger.
RECURSIVE insert_descending(_, _)
insert_descending(x, t) ==
    IF t = <<>> THEN <<x>>
    ELSE IF Head(t)[3] > x[3] THEN <<Head(t)>> \o insert_descending(x, Tail(t))
    ELSE <<x>> \o t

\* Variant of sorted_by_size without reverse=True: smallest first.
RECURSIVE insert_ascending(_, _)
insert_ascending(x, t) ==
    IF t = <<>> THEN <<x>>
    ELSE IF Head(t)[3] < x[3] THEN <<Head(t)>> \o insert_ascending(x, Tail(t))
    ELSE <<x>> \o t

RECURSIVE sorted_ascending(_)
sorted_ascending(triples) ==
    IF triples = <<>> THEN <<>>
    ELSE insert_ascending(Head(triples), sorted_ascending(Tail(triples)))

\* sorted(items, key=operator.itemgetter(2), reverse=True): a stable sort,
\* triples of equal size keep the order they have in items.
RECURSIVE sorted_by_size(_)
sorted_by_size(triples) ==
    IF triples = <<>> THEN <<>>
    ELSE insert_descending(Head(triples), sorted_by_size(Tail(triples)))

\* iter_by_size: the triples <<key, val, val.size()>>, largest first.
iter_by_size(dict, order) ==
    LET keys == items(dict, order)
    IN  sorted_by_size([i \in DOMAIN keys |->
                           <<keys[i], dict[keys[i]], size_of(dict[keys[i]])>>])

(***************************************************************************)
(* FilePathTreeRender                                                      *)
(***************************************************************************)

\* One print call.  kind says which print it is; text, size and count are
\* what it prints (size as render_bytes_in_gb gives it), indent the number
\* of leading spaces.  at and run are not printed: they record the place in
\* the trie of the node the print is about (the keys from the top of the
\* trie to the node where the line starts, and the keys of the collapsed
\* chain, starting with that node).
Line(kind, indent, text, size, count, at, run) ==
    [kind |-> kind, indent |-> indent, text |-> text, size |-> size,
     count |-> count, at |-> at, run |-> run]

\* FilePathTreeRender.__init__
FilePathTreeRender(tree, total_size, percent_threshold, show_users, indent, precision) ==
    [file_path_tree |-> tree, show_users |-> show_users, indent |-> indent,
     precision |-> precision, total_size |-> total_size,
     percent_threshold |-> percent_threshold]

\* is_big_enough: (size / total_size) * 100.0 >= percent_threshold, the
\* threshold being the ratio percent_threshold[1] / percent_threshold[2].
\* Evaluated only with total_size > 0 (see Finish for total_size = 0).
is_big_enough(self, size) ==
    compare_ratio(size, self.total_size,
                  self.percent_threshold[1], 100 * self.percent_threshold[2]) >= 0

\* Variant of append_child without the test for the root directory.
append_child_with_slash(path, child_path) == path \o <<"/">> \o child_path

\* The path after one step of the collapsing loop.
append_child(path, child_path) ==
    IF path = <<"/">> THEN path \o child_path
    ELSE path \o <<"/">> \o child_path

\* The loop "while len(node.children) == 1".
RECURSIVE collapse(_, _, _)
collapse(path, node, run) ==
    IF Cardinality(DOMAIN node.children) = 1
    THEN LET child_path == CHOOSE k \in DOMAIN node.children : TRUE
         IN  collapse(append_child(path, child_path),
                      node.children[child_path], Append(run, child_path))
    ELSE [path |-> path, node |-> node, run |-> run]

\* User.render
user_render(kind, indent, user_stats, precision, at) ==
    Line(kind, indent, user_stats.name,
         render_bytes_in_gb(user_stats.file_size, precision),
         user_stats.count, at, <<>>)

\* The prints of the users of one node, for those that are big enough.
RECURSIVE render_users(_, _, _, _)
render_users(self, triples, indent, at) ==
    IF triples = <<>> THEN <<>>
    ELSE (IF is_big_enough(self, Head(triples)[3])
          THEN <<user_render("user", indent, Head(triples)[2], self.precision, at)>>
          ELSE <<>>)
         \o render_users(self, Tail(triples), indent, at)

RECURSIVE render_rec(_, _, _, _, _)
RECURSIVE render_children(_, _, _, _, _)

\* The body of the for loop of render_rec, for one child of the level.
render_child(self, triple, current_depth, parent, order) ==
    LET shown_size == size_of(triple[2])
    IN  IF is_big_enough(self, shown_size)
        THEN LET end    == collapse(triple[1], triple[2], <<triple[1]>>)
                 indent == self.indent * current_depth
                 at     == Append(parent, triple[1])
                 below  == parent \o end.run
             IN  <<Line("path", indent, end.path,
                        render_bytes_in_gb(shown_size, self.precision), 0,
                        at, end.run)>>
                 \o (IF self.show_users
                     THEN render_users(self, iter_by_size(end.node.users, order),
                                       indent, below)
                     ELSE <<>>)
                 \o render_rec(self, end.node.children, current_depth + 1,
                               below, order)
        ELSE <<>>

render_children(self, triples, current_depth, parent, order) ==
    IF triples = <<>> THEN <<>>
    ELSE render_child(self, Head(triples), current_depth, parent, order)
         \o render_children(self, Tail(triples), current_depth, parent, order)

\* Variant of render_rec that leaves its loop after the first child.
render_rec_first_child(self, tree, current_depth, parent, order) ==
    IF Cardinality(DOMAIN tree) = 0 THEN <<>>
    ELSE render_child(self, Head(iter_by_size(tree, order)), current_depth,
                      parent, order)

\* render_rec: the prints for the dict tree, whose keys sit below the trie
\* position parent.
render_rec(self, tree, current_depth, parent, order) ==
    IF Cardinality(DOMAIN tree) = 0 THEN <<>>
    ELSE render_children(self, iter_by_size(tree, order), current_depth,
                         parent, order)

\* FilePathTreeRender.render
render(self, order) == render_rec(self, self.file_path_tree, 0, <<>>, order)

(***************************************************************************)
(* Ingestion and main                                                      *)
(***************************************************************************)

\* consider_file: args.path and args.user are truthy when not empty.
consider_file(a, user_name, path) ==
    LET by_path == IF a.path # None /\ ~startswith(path, a.path)
                   THEN FALSE ELSE TRUE
    IN  IF a.user # None /\ ~(user_name = a.user) THEN FALSE ELSE by_path

\* The update of user_usage in process_input for one accepted record.
update_usage(usage, user_name, this_bytes) ==
    IF user_name \notin DOMAIN usage
    THEN (user_name :> User(user_name, this_bytes, 1)) @@ usage
    ELSE [usage EXCEPT ![user_name] =
              [@ EXCEPT !.file_size = @ + this_bytes, !.count = @ + 1]]

\* The print after the loop of process_input.
skipped_report(skipped) ==
    IF skipped > 0
    THEN <<Line("skipped", 0, <<>>, 0, skipped, <<>>, <<>>)>>
    ELSE <<>>

\* show_user_summary
show_user_summary(total_count, total_size_usage, usage, precision, order) ==
    LET triples == iter_by_size(usage, order)
    IN  <<Line("user_totals", 0, <<>>, 0, 0, <<>>, <<>>)>>
        \o [i \in DOMAIN triples |->
               user_render("user_total", 0, triples[i][2], precision, <<>>)]
        \o <<Line("total_size", 0, <<>>,
                  render_bytes_in_gb(total_size_usage, precision), 0, <<>>, <<>>),
             Line("total_count", 0, <<>>, 0, total_count, <<>>, <<>>)>>

\* Variant of has_usage that lets a count of 0 through.
has_usage_or_none(total_count, total_size_usage) == total_count >= 0

\* The test main makes before it renders.
has_usage(total_count, total_size_usage) == total_count > 0

\* The print of the else branch of main.
nothing_to_show == <<Line("nothing", 0, <<>>, 0, 0, <<>>, <<>>)>>

NoMessage == [message |-> "", token |-> <<>>]

(***************************************************************************)
(* Inputs                                                                  *)
(***************************************************************************)

\* --thresh values, as ratios: 0, 50 and 100.0001 percent.
Thresholds == { <<0, 1>>, <<50, 1>>, <<1000001, 10000>> }

\* Input lines, as the iteration over sys.stdin gives them.
Lines ==
    { <<"3", "0", "0", "M", " ", "a", "m", "y", " ", "/", "a", "\n">>,
      <<"1", "0", "0", "M", " ", "b", "o", "b", " ", "/", "a", "/", "b", "\n">>,
      <<" ", " ", "1", "0", "0", "M", "\t", "a", "m", "y", " ", "/", "a", "/", "c", " ", "x", "\n">>,
      <<"3", "0", "0", "M", " ", "b", "o", "b", " ", "b", "/", "c", "\n">>,
      <<"0", " ", "a", "m", "y", " ", "/", "a", "/", "\n">>,
      <<"1", "2", "M", "\n">>,
      <<"1", "2", "M", " ", "a", "m", "y", "\n">>,
      <<"a", "b", "c", " ", "a", "m", "y", " ", "/", "a", "\n">>,
      <<"M", " ", "b", "o", "b", " ", "b", "/", "c", "\n">>,
      <<"1", "2", "B", " ", "a", "m", "y", " ", "/", "a", "\n">>,
      <<"1", "2", "m", " ", "b", "o", "b", " ", "/", "a", "/", "b", "\n">> }

(***************************************************************************)
(* The state machine                                                       *)
(***************************************************************************)

\* parse_args, and the locals of process_input before its loop.
Init ==
    /\ args \in [thresh : Thresholds, indent : {DEFAULT_INDENT},
                 precision : {DEFAULT_PRECISION},
                 path : {None, <<"/","a">>}, user : {None, amy},
                 showusers : BOOLEAN]
    /\ pc = "reading"
    /\ lines_read = 0
    /\ fields = <<>>
    /\ user_usage = EmptyDict
    /\ file_path_tree = EmptyDict
    /\ num_skipped_lines = 0
    /\ stdout = <<>>
    /\ stderr = NoMessage
    /\ accepted = EmptyBag

\* One turn of the loop "for line in sys.stdin" of process_input.
ReadLine(line) ==
    /\ pc = "reading"
    /\ lines_read < MaxLines
    /\ lines_read' = lines_read + 1
    /\ fields' = split(line)
    /\ UNCHANGED <<args, stdout>>
    /\ IF Len(split(line)) >= 3
       THEN LET size      == split(line)[1]
                user_name == split(line)[2]
                path      == split(line)[3]
                parsed    == size_in_bytes(size)
            IN  IF consider_file(args, user_name, path)
                THEN IF parsed.status = "ok"
                     THEN /\ user_usage' =
                                update_usage(user_usage, user_name, parsed.bytes)
                          /\ file_path_tree' =
                                insert(file_path_tree, path, parsed.bytes, user_name)
                          /\ accepted' = accepted (+)
                                SetToBag({[path |-> path, size_bytes |-> parsed.bytes,
                                           user_name |-> user_name]})
                          /\ UNCHANGED <<pc, stderr, num_skipped_lines>>
                     ELSE /\ pc' = parsed.status
                          /\ stderr' =
                                IF parsed.status = "exit"
                                THEN [message |-> "Bad file size in input",
                                      token |-> size]
                                ELSE [message |-> "KeyError",
                                      token |-> <<size[Len(size)]>>]
                          /\ UNCHANGED <<user_usage, file_path_tree, accepted,
                                         num_skipped_lines>>
                ELSE UNCHANGED <<pc, stderr, user_usage, file_path_tree,
                                 accepted, num_skipped_lines>>
       ELSE /\ num_skipped_lines' = num_skipped_lines + 1
            /\ UNCHANGED <<pc, stderr, user_usage, file_path_tree, accepted>>

\* End of input: the rest of process_input, then the rest of main.  The
\* division of is_big_enough raises ZeroDivisionError when total_size is 0;
\* render_rec reaches it, before any print, as soon as the trie has a key.
Finish ==
    /\ pc = "reading"
    /\ \E order \in DictOrders :
         LET total_size_usage == sum_sizes(user_usage)
             total_count      == sum_counts(user_usage)
             head  == skipped_report(num_skipped_lines)
             users == IF args.showusers
                      THEN show_user_summary(total_count, total_size_usage,
                                             user_usage, args.precision, order)
                      ELSE <<>>
             renderer == FilePathTreeRender(file_path_tree, total_size_usage,
                             args.thresh, args.showusers, args.indent,
                             args.precision)
         IN  IF has_usage(total_count, total_size_usage)
             THEN IF total_size_usage = 0 /\ DOMAIN file_path_tree # {}
                  THEN /\ stdout' = head \o users
                       /\ pc' = "ZeroDivisionError"
                       /\ stderr' = [message |-> "ZeroDivisionError",
                                     token |-> <<>>]
                  ELSE /\ stdout' = head \o users \o render(renderer, order)
                       /\ pc' = "done"
                       /\ stderr' = stderr
             ELSE /\ stdout' = head \o nothing_to_show
                  /\ pc' = "done"
                  /\ stderr' = stderr
    /\ UNCHANGED <<args, lines_read, fields, user_usage, file_path_tree,
                   num_skipped_lines, accepted>>

Next ==
    \/ \E line \in Lines : ReadLine(line)
    \/ Finish

Spec == Init /\ [][Next]_vars

(***************************************************************************)
(* Vocabulary of the properties                                            *)
(***************************************************************************)

Owners == {amy, bob}

Front(s) == SubSeq(s, 1, Len(s) - 1)

IsPrefix(p, q) == Len(p) <= Len(q) /\ SubSeq(q, 1, Len(p)) = p

\* The trie positions: the non-empty key sequences that lead to a node.
RECURSIVE Positions(_)
Positions(tree) ==
    UNION { {<<k>>} \cup { <<k>> \o p : p \in Positions(tree[k].children) }
            : k \in DOMAIN tree }

RECURSIVE NodeAt(_, _)
NodeAt(tree, pos) ==
    IF Len(pos) = 1 THEN tree[pos[1]]
    ELSE NodeAt(tree[pos[1]].children, Tail(pos))

SizeAt(pos) == node_size(NodeAt(file_path_tree, pos))

ChildCount(pos) == Cardinality(DOMAIN NodeAt(file_path_tree, pos).children)

\* The components of a path that name a node: the empty and the
\* all-whitespace ones left out.
CleanSplit(path) == SelectSeq(splitall(path), LAMBDA c : Len(strip(c)) > 0)

RECURSIVE SumBytes(_)
SumBytes(records) ==
    IF records = {} THEN 0
    ELSE LET r == CHOOSE r \in records : TRUE
         IN  CopiesIn(r, accepted) * r.size_bytes + SumBytes(records \ {r})

RECURSIVE CountRecords(_)
CountRecords(records) ==
    IF records = {} THEN 0
    ELSE LET r == CHOOSE r \in records : TRUE
         IN  CopiesIn(r, accepted) + CountRecords(records \ {r})

\* The accepted records whose path passes through the trie position pos.
Through(pos) ==
    { r \in BagToSet(accepted) : IsPrefix(pos, CleanSplit(r.path)) }

TotalSize == sum_sizes(user_usage)
TotalCount == sum_counts(user_usage)

PathLines == { i \in DOMAIN stdout : stdout[i].kind = "path" }
UserLines == { i \in DOMAIN stdout : stdout[i].kind = "user" }

\* The trie position at which a printed path line ends.
EndOf(line) == Front(line.at) \o line.run

\* The trie positions a printed path line shows: those of its chain.
ShownBy(line) ==
    { Front(line.at) \o SubSeq(line.run, 1, k) : k \in 1..Len(line.run) }

Displayed == UNION { ShownBy(stdout[i]) : i \in PathLines }

\* (size / total) * 100 < threshold
BelowThreshold(size) ==
    compare_ratio(size, TotalSize, args.thresh[1], 100 * args.thresh[2]) < 0

\* <number><unit>?, the unit one of B K M G T in either case.
WellFormedToken(tok) ==
    \/ float_ok(tok)
    \/ /\ Len(tok) >= 2
       /\ upper(tok[Len(tok)]) \in UnitKeys
       /\ float_ok(Front(tok))

\* The bytes the grammar gives a well-formed token.
ExpectedBytes(tok) ==
    IF float_ok(tok) THEN float_value(tok)
    ELSE float_value(Front(tok)) * UNITS_IN_BYTES(upper(tok[Len(tok)]))

Rank(order, name) == CHOOSE i \in DOMAIN order : order[i] = name

\* The components of a chain joined by "/", nothing being put after a path
\* that is the root marker.
RECURSIVE JoinFrom(_, _)
JoinFrom(acc, rest) ==
    IF rest = <<>> THEN acc
    ELSE JoinFrom(IF acc = <<"/">> THEN acc \o Head(rest)
                  ELSE acc \o <<"/">> \o Head(rest), Tail(rest))

JoinRun(run) == JoinFrom(Head(run), Tail(run))

\* The trie is one chain: no node has two children.
SingleChain ==
    /\ Cardinality(DOMAIN file_path_tree) = 1
    /\ \A pos \in Positions(file_path_tree) : ChildCount(pos) <= 1

(***************************************************************************)
(* Properties                                                              *)
(***************************************************************************)

\* C1: after any sequence of inserts, at every trie node and for every
\* owner, the owner's file_size is the sum of the sizes, and its count the
\* number, of the accepted records of that owner whose cleaned split path
\* has the node's position as a prefix; an owner without such a record has
\* no entry; Node.size is the sum over all records through the node.
C1_Aggregation ==
    \A pos \in Positions(file_path_tree) :
        LET N == NodeAt(file_path_tree, pos)
            of_owner(o) == { r \in Through(pos) : r.user_name = o }
        IN  /\ DOMAIN N.users \subseteq Owners
            /\ \A o \in Owners :
                   IF of_owner(o) = {} THEN o \notin DOMAIN N.users
                   ELSE /\ o \in DOMAIN N.users
                        /\ N.users[o].file_size = SumBytes(of_owner(o))
                        /\ N.users[o].count = CountRecords(of_owner(o))
            /\ node_size(N) = SumBytes(Through(pos))

\* A node that two owners reach, one of them with two records, below a
\* node that more records pass through.
C1_Witness ==
    \E pos \in Positions(file_path_tree) :
        LET N == NodeAt(file_path_tree, pos)
        IN  /\ Len(pos) >= 2
            /\ DOMAIN N.users = Owners
            /\ \E o \in Owners : N.users[o].count >= 2
            /\ \E below \in Positions(file_path_tree) :
                   /\ IsPrefix(pos, below)
                   /\ CountRecords(Through(below)) < CountRecords(Through(pos))

\* render was called: main took the branch that renders.
RenderInvoked ==
    \/ pc = "ZeroDivisionError"
    \/ pc = "done" /\ \A i \in DOMAIN stdout : stdout[i].kind # "nothing"

\* C2: render (and the division in is_big_enough) is invoked only when the
\* total size of the accepted records is greater than zero; when the total
\* size is zero main prints "nothing to show"; no division by zero.
C2_RenderOnlyWhenTotalPositive ==
    /\ pc # "ZeroDivisionError"
    /\ RenderInvoked => TotalSize > 0
    /\ (pc = "done" /\ TotalSize = 0) =>
           (stdout # <<>> /\ stdout[Len(stdout)].kind = "nothing")

\* C3: no node whose size is below the threshold, and no descendant of such
\* a node, appears in the output: not as a line, not as a component of a
\* collapsed path, not through its owners.
C3_HardPruning ==
    pc = "done" =>
        \A pos \in Displayed \cup { stdout[i].at : i \in UserLines } :
            \A k \in 1..Len(pos) : ~BelowThreshold(SizeAt(SubSeq(pos, 1, k)))

\* The line just read has three fields or more and a size token that is not
\* <number><unit>?.
BadSizeLine == Len(fields) >= 3 /\ ~WellFormedToken(fields[1])

\* The run ended in exit(...) naming the token of the line just read, with
\* nothing printed and nothing left to run.
AbortedOnToken ==
    /\ pc = "exit"
    /\ stderr = [message |-> "Bad file size in input", token |-> fields[1]]
    /\ stdout = <<>>
    /\ ~ENABLED Next

\* C4 as stated: a line of three fields or more whose size token is not
\* well formed ends the run at once, with a diagnostic naming the token and
\* nothing printed, whether or not the line passes the --user/--path filter.
C4_BadSizeAlwaysAborts == BadSizeLine => AbortedOnToken

\* C4 as amended: such a line ends the run at once when its owner and path
\* pass the filter; a line the filter rejects is passed over, its size token
\* never examined.
C4_BadSizeAbortsWhenConsidered ==
    BadSizeLine =>
        IF consider_file(args, fields[2], fields[3])
        THEN AbortedOnToken
        ELSE pc # "exit" /\ stderr.message # "Bad file size in input"

\* The abort comes after a skipped line and an accepted record, under a
\* filter that the bad line passes: nothing of them has been printed.
C4_Witness ==
    /\ BadSizeLine
    /\ pc = "exit"
    /\ args.user # None
    /\ num_skipped_lines > 0
    /\ TotalCount > 0

\* C5: every token <number><unit>?, the unit one of B K M G T in either
\* case, is accepted by size_in_bytes, which returns the number times 1,
\* 1024, 1024^2, 1024^3 or 1024^4; no such token ends the run.
C5_UnitTokensParse ==
    (/\ Len(fields) >= 3
     /\ WellFormedToken(fields[1])
     /\ consider_file(args, fields[2], fields[3])) =>
        /\ pc \notin {"exit", "KeyError"}
        /\ size_in_bytes(fields[1]) =
               [status |-> "ok", bytes |-> ExpectedBytes(fields[1])]

\* Two printed lines are about siblings: two path lines that start below the
\* same node, or two user lines of the same node.
Siblings(i, j) ==
    /\ i < j
    /\ \/ /\ i \in PathLines /\ j \in PathLines
          /\ Front(stdout[i].at) = Front(stdout[j].at)
       \/ /\ i \in UserLines /\ j \in UserLines
          /\ stdout[i].at = stdout[j].at

\* The size iter_by_size sorted a printed line by, and the key it has.
SortedSize(i) ==
    IF i \in PathLines THEN SizeAt(stdout[i].at)
    ELSE NodeAt(file_path_tree, stdout[i].at).users[stdout[i].text].file_size

SortedName(i) ==
    IF i \in PathLines THEN stdout[i].at[Len(stdout[i].at)] ELSE stdout[i].text

\* C6 as stated: siblings are printed in non-increasing order of size, and
\* those of equal size by name ascending.
C6_SizeThenName ==
    pc = "done" =>
        \A i, j \in PathLines \cup UserLines :
            Siblings(i, j) =>
                /\ SortedSize(i) >= SortedSize(j)
                /\ SortedSize(i) = SortedSize(j) =>
                       Rank(NameOrder, SortedName(i)) < Rank(NameOrder, SortedName(j))

\* C6 as amended: siblings are printed in non-increasing order of size, and
\* those of equal size in the order the dict is iterated in, whatever that
\* order is.
C6_SizeThenDictOrder ==
    pc = "done" =>
        \E order \in DictOrders :
            \A i, j \in PathLines \cup UserLines :
                Siblings(i, j) =>
                    /\ SortedSize(i) >= SortedSize(j)
                    /\ SortedSize(i) = SortedSize(j) =>
                           Rank(order, SortedName(i)) < Rank(order, SortedName(j))

\* Two sibling path lines of equal size are printed, and two sibling user
\* lines of different sizes.
C6_Witness ==
    /\ pc = "done"
    /\ \E i, j \in PathLines : Siblings(i, j) /\ SortedSize(i) = SortedSize(j)
    /\ \E i, j \in UserLines : Siblings(i, j) /\ SortedSize(i) > SortedSize(j)

\* C7: every printed line stands for a maximal run of single-child nodes:
\* the node it ends at has no child or at least two, every node before it in
\* the run has one child, the run starts at the top of the trie or below a
\* node with several children, and the printed path is the components of the
\* run joined by "/", nothing being put after the root marker.  A trie that
\* is one chain and passes the threshold is printed as one line, at depth 0.
C7_ChainCollapsing ==
    pc = "done" =>
        /\ \A i \in PathLines :
               LET line == stdout[i]
               IN  /\ ChildCount(EndOf(line)) # 1
                   /\ \A pos \in ShownBy(line) \ {EndOf(line)} : ChildCount(pos) = 1
                   /\ Len(line.at) > 1 => ChildCount(Front(line.at)) >= 2
                   /\ line.text = JoinRun(line.run)
        /\ (SingleChain /\ TotalSize > 0 /\ ~BelowThreshold(TotalSize)) =>
               /\ Cardinality(PathLines) = 1
               /\ \A i \in PathLines :
                      /\ stdout[i].indent = 0
                      /\ ShownBy(stdout[i]) = Positions(file_path_tree)

\* A chain from the root marker and a chain from a relative path, each
\* printed as one line.
C7_Witness ==
    /\ pc = "done"
    /\ \E i \in PathLines :
           /\ Len(stdout[i].run) >= 3
           /\ stdout[i].text = <<"/", "a", "/", "b">>
    /\ \E i \in PathLines : stdout[i].text = <<"b", "/", "c">>

\* Nothing was printed by render.
NothingRendered == PathLines = {} /\ UserLines = {}

\* C8: with non-negative sizes and a positive total, a threshold of 0 shows
\* every node of nonzero size, as a line or as a component of a collapsed
\* line; a threshold of 100.0001 prints no line; no node is larger than the
\* total size.
C8_ThresholdExtremes ==
    (pc = "done" /\ TotalCount > 0 /\ TotalSize > 0) =>
        /\ \A pos \in Positions(file_path_tree) : SizeAt(pos) <= TotalSize
        /\ args.thresh = <<0, 1>> =>
               \A pos \in Positions(file_path_tree) :
                   SizeAt(pos) # 0 => pos \in Displayed
        /\ args.thresh = <<1000001, 10000>> => NothingRendered

\* A threshold of 0 over a trie with a branch: several lines, one of them a
\* collapsed chain.
C8_Witness ==
    /\ pc = "done"
    /\ args.thresh = <<0, 1>>
    /\ TotalSize > 0
    /\ Cardinality(PathLines) >= 3
    /\ \E i \in PathLines : Len(stdout[i].run) >= 2
    /\ Displayed = Positions(file_path_tree)

\* Every line read was a line of fewer than three fields.
OnlyShortLines == lines_read > 0 /\ num_skipped_lines = lines_read

\* C9 as stated: when every input line has fewer than three fields, the
\* count is 0, render is not invoked, the run ends well and the output is
\* exactly the "nothing to show" message.
C9_OnlyNothingToShow ==
    (pc \notin {"reading"} /\ OnlyShortLines) =>
        /\ pc = "done"
        /\ TotalCount = 0
        /\ stdout = nothing_to_show

\* C9 as amended, the final result: the output is the count of skipped lines
\* followed by the "nothing to show" message.
C9_FinalOutput ==
    (pc \notin {"reading"} /\ OnlyShortLines) =>
        /\ pc = "done"
        /\ TotalCount = 0
        /\ ~RenderInvoked
        /\ stdout = <<Line("skipped", 0, <<>>, 0, num_skipped_lines, <<>>, <<>>)>>
                    \o nothing_to_show

\* C9 as amended, the step: reading a line of fewer than three fields counts
\* it and changes neither the trie nor the summary, and the run goes on.
C9_SkipStep ==
    (lines_read' = lines_read + 1 /\ Len(fields') < 3) =>
        /\ num_skipped_lines' = num_skipped_lines + 1
        /\ pc' = "reading"
        /\ UNCHANGED <<file_path_tree, user_usage, accepted, stdout, stderr>>

\* C9 as amended: a line of fewer than three fields is skipped and counted
\* without aborting and without changing the trie or the summary; when
\* every line is such a line the count is 0, render is not invoked, the run
\* ends well, and the output is the skipped-lines count and then "nothing to
\* show".
C9_SkippedLines == [](C9_FinalOutput) /\ [][C9_SkipStep]_vars

\* Two short lines, and the end of the run.
C9_Witness ==
    /\ pc = "done"
    /\ OnlyShortLines
    /\ lines_read >= 2
    /\ stdout[Len(stdout)].kind = "nothing"

\* C10: the size printed on a tree line is the size of the node at the end
\* of the collapsed chain, the node whose owners and children follow.
C10_SizeOfEndNode ==
    pc = "done" =>
        \A i \in PathLines :
            stdout[i].size =
                render_bytes_in_gb(SizeAt(EndOf(stdout[i])), args.precision)

====
